---- MODULE Spec2Model ----
(***************************************************************************)
(* Incoming-call signalling of the Liberdus native shell: the Android      *)
(* background message handler with its persisted duplicate filter          *)
(* (index.ts), the staleness filter (CallKeepOptions), CallKeepService,    *)
(* the foreground FCM listener and the iOS VoIP listener (App.tsx), the    *)
(* iOS push-registry delegate (AppDelegate.swift) and, as environment,     *)
(* the native call UI behind RNCallKeep.                                   *)
(***************************************************************************)
EXTENDS Integers, Sequences, FiniteSets, TLC

(* ------------------------------ bounds -------------------------------- *)
\* Number of call signals delivered in one behaviour.
MaxRuns == 2
\* Milliseconds the clock may advance (one Tick is one millisecond).
MaxTicks == 1
\* Envelopes the embedded content posts to handleWebViewMessage.
MaxMessages == 3
\* Mounts of the App component, each running the initialisation effect.
MaxMounts == 2
\* Native events (emitted or pending) up to which the user still mutes, holds
\* or sends DTMF digits.
MaxEvents == 3
\* Messages injected into the web view up to which the application still
\* changes state.
MaxSent == 4

(* ------------------------- program constants -------------------------- *)
MAX_STORED_MESSAGES == 5
BACKGROUND_CALL_EXPIRY_THRESHOLD_MS == 5 * 60 * 1000

(* --------------------------- value domains ---------------------------- *)
Runs == 1..MaxRuns
Null == "null"
\* remoteMessage.messageId: absent (NoMessageId) or one of two ids.
NoMessageId == ""
MessageIds == {"m1", "m2"}
CallIds == {"c1", "c2"}
\* uuid.v4() of the r-th invocation of handleIncomingCall: fresh, never a callId.
UuidV4(r) == "u" \o ToString(r)
\* payload["callId"] of a VoIP push that carries none.
NoCallId == ""
\* UUID().uuidString of the push registry for the r-th push.
NativeUuid(r) == "n" \o ToString(r)
UUIDs == CallIds \cup {UuidV4(r) : r \in Runs} \cup {NativeUuid(r) : r \in Runs}
\* The completion handler of a push: not received yet, passed to CallKit with
\* the report of the call, or kept by RNVoipPushNotificationManager under a key.
NoCompletion == [at |-> "none", key |-> Null, invoked |-> 0]
\* The clock starts late enough for a stale sentAt to be a positive timestamp.
StartTime == BACKGROUND_CALL_EXPIRY_THRESHOLD_MS + 1000
\* callData.sentAt: missing, a string Date.parse cannot read, or a timestamp.
SentAtMissing == [kind |-> "missing", ms |-> 0]
SentAtInvalid == [kind |-> "invalid", ms |-> 0]
SentAtTime(t) == [kind |-> "iso", ms |-> t]
\* An ISO timestamp written without fractional seconds.
SentAtTimeNoFraction(t) == [kind |-> "isoNoFraction", ms |-> t]
SentAts ==
  { SentAtMissing, SentAtInvalid,
    SentAtTime(StartTime),
    SentAtTime(StartTime - BACKGROUND_CALL_EXPIRY_THRESHOLD_MS),
    SentAtTime(StartTime - BACKGROUND_CALL_EXPIRY_THRESHOLD_MS - 1),
    SentAtTime(StartTime + 1000),
    SentAtTimeNoFraction(StartTime) }
\* remoteMessage.data: absent, of another type, or an incoming call.
NoData == [type |-> "nodata", messageId |-> NoMessageId, callId |-> "c1", sentAt |-> SentAtMissing]
OtherData == [type |-> "other", messageId |-> NoMessageId, callId |-> "c1", sentAt |-> SentAtMissing]
CallSignals ==
  [type : {"incoming_call"}, messageId : MessageIds \cup {NoMessageId},
   callId : CallIds, sentAt : SentAts]
Signals == CallSignals \cup {NoData, OtherData}
\* The stored list a process may find at launch: nothing stored yet, or the
\* list left by five earlier admissions, "m1" being the oldest of them.
InitialStores ==
  { [has |-> FALSE, ids |-> << >>],
    [has |-> TRUE, ids |-> << "x4", "x3", "x2", "x1", "m1" >>] }
NoDedup == [read |-> "none", retained |-> FALSE, limitedIds |-> << >>, wrote |-> FALSE]

\* The web-view bridge (App.tsx).
Mounts == 1..MaxMounts
APP_URL == "https://liberdus.com/test/"
Urls == {"https://a.example/", "https://b.example/"}
Usernames == {"alice", "bob"}
\* data.timestamp of a scheduled call: before, at and after the clock.
Timestamps == {StartTime - 1000, StartTime, StartTime + 60000}
\* Crypto.getRandomBytesAsync(16) of the k-th call, in hexadecimal.
RandomToken(k) == "token" \o ToString(k)
\* event.nativeEvent.data: text that is not JSON, the JSON text null, or an
\* object with the fields the handler reads.
Envelope(json, type, url, username, timestamp) ==
  [json |-> json, type |-> type, url |-> url, username |-> username, timestamp |-> timestamp]
NoEnvelope == Envelope("none", "", "", "", 0)
InvalidJson == Envelope("invalid", "", "", "", 0)
JsonNull == Envelope("null", "", "", "", 0)
Envelopes ==
  {InvalidJson, JsonNull}
    \cup {Envelope("object", t, "", "", 0) : t \in {"", "Launch", "APP_PARAMS"}}
    \cup {Envelope("object", "launch", u, "", 0) : u \in Urls}
    \cup {Envelope("object", t, "", n, ts) :
            t \in {"SCHEDULE_CALL", "CANCEL_SCHEDULE_CALL"}, n \in Usernames, ts \in Timestamps}
NoTokenCall == [pc |-> "idle", uuid |-> Null, result |-> Null]

VARIABLES
  platform,          \* Platform.OS
  appState,          \* AppState.currentState
  now,               \* Date.now()
  storedIds,         \* AsyncStorage item MESSAGE_IDS_KEY: [has, ids]
  pc,                \* per delivered signal: where its handler stands
  sig,               \* per delivered signal: the signal
  entry,             \* per delivered signal: the entry point that received it
  receivedAt,        \* per delivered signal: Date.now() at its delivery
  completions,       \* per VoIP push: its completion handler and how often it was invoked
  dedup,             \* per run: what handleMessageDeduplication read and will write
  outcome,           \* per run: how its handler ended
  overlapped,        \* history: pairs of runs whose dedup steps interleaved
  isSetup,           \* CallKeepService.isSetup
  currentCallUUID,   \* CallKeepService.currentCallUUID
  svcListeners,      \* registrations of CallKeepService's answerCall/endCall listeners
  bgListeners,       \* runs of the background handler whose listeners are registered
  answerTimers,      \* pending 200 ms timers of onAnswerCall, per call UUID
  bgTimer,           \* runs whose incomingCallTimeout is armed
  liveCalls,         \* native call UI: calls displayed and not ended
  answeredCalls,     \* native call UI: live calls the user has answered
  events,            \* native events not yet dispatched to JavaScript
  displayLog,        \* history: display requests issued to the native call UI
  endReqs,           \* history: RNCallKeep.endCall requests per call UUID
  endAllReqs,        \* history: RNCallKeep.endAllCalls requests
  endFailed,         \* history: RNCallKeep.endCall requests that threw
  fgReqs,            \* history: RNCallKeep.backToForeground requests
  answerHandled,     \* history: calls for which a listener handled an answerCall event
  handled,           \* history: the native event dispatched by the last Dispatch step
  appInit,           \* the App initialisation effect's call of CallKeepService.setup
  unhandled,         \* history: runs whose handleIncomingCall promise rejected uncaught
  admittedBefore,    \* history: ids admitted and stored before the last relaunch
  admissions,        \* history: the message ids admitted, newest first
  appUrl,            \* AsyncStorage item APP_URL_KEY
  deviceTokenStore,  \* AsyncStorage item DEVICE_TOKEN_KEY
  webViewUrl,        \* App state webViewUrl
  showWebView,       \* App state showWebView: the WebView is mounted
  browserCalls,      \* runs of the effect on [hasLaunchedOnce] that called openBrowser
  deviceToken,       \* App state deviceToken
  pushTokens,        \* App state expoPushToken, voipToken, fcmToken
  tokenCalls,        \* per mount: its call of getOrCreateDeviceToken
  launchWrites,      \* launch handlers awaiting AsyncStorage.setItem
  launchTimers,      \* pending 100 ms timers of launch handlers, oldest first
  reminders,         \* identifiers of the scheduled notifications
  outbox,            \* messages injected into the web view, oldest first
  appResumeTimer,    \* the timer of appResumeTimer.current is pending
  msgCount,          \* history: envelopes handled so far
  lastEnvelope,      \* history: the envelope handled last
  lastOutcome        \* history: how its handling ended

vars ==
  << platform, appState, now, completions, storedIds, pc, sig, entry, receivedAt, dedup, outcome, overlapped,
     isSetup, currentCallUUID, svcListeners, bgListeners, answerTimers, bgTimer,
     liveCalls, answeredCalls, events, displayLog, endReqs, endAllReqs, endFailed, fgReqs,
     answerHandled, handled, appInit, unhandled, admittedBefore, admissions,
     appUrl, deviceTokenStore, webViewUrl, showWebView, browserCalls, deviceToken, pushTokens,
     tokenCalls, launchWrites, launchTimers, reminders, outbox, appResumeTimer, msgCount,
     lastEnvelope, lastOutcome >>

bridgeVars ==
  << appUrl, deviceTokenStore, webViewUrl, showWebView, browserCalls, deviceToken, pushTokens,
     tokenCalls, launchWrites, launchTimers, reminders, outbox, appResumeTimer, msgCount,
     lastEnvelope, lastOutcome >>

dedupVars == << storedIds, dedup, overlapped, admittedBefore, admissions >>
runVars == << pc, sig, entry, receivedAt, outcome >>
envVars == << platform, appState, now >>

callVars ==
  << envVars, completions, dedupVars, runVars, isSetup, currentCallUUID, svcListeners, bgListeners,
     answerTimers, bgTimer, liveCalls, answeredCalls, events, displayLog, endReqs,
     endAllReqs, endFailed, fgReqs, answerHandled, handled, appInit, unhandled >>

(* ----------------------------- helpers -------------------------------- *)
Includes(s, x) == \E i \in 1..Len(s) : s[i] = x
\* A slice that keeps the last n elements: the newest id is dropped first.
SliceFromEnd(s, n) == IF Len(s) <= n THEN s ELSE SubSeq(s, Len(s) - n + 1, Len(s))
\* A slice that keeps one element too many.
SliceOneMore(s, n) == IF Len(s) <= n + 1 THEN s ELSE SubSeq(s, 1, n + 1)
\* Array.prototype.slice(0, n)
Slice(s, n) == IF Len(s) <= n THEN s ELSE SubSeq(s, 1, n)
\* JSON.parse(stored) of the item, or [] when the key is absent.
StoredList == IF storedIds.has THEN storedIds.ids ELSE << >>

(* ------------------- isStaleCallNotification (JS) --------------------- *)
\* Date.parse: a finite timestamp for an ISO string, NaN otherwise.
DateParse(sentAt) ==
  [finite |-> sentAt.kind \in {"iso", "isoNoFraction"}, ms |-> sentAt.ms]

\* Without the Number.isFinite test: NaN > threshold is false.
isStaleCallNotificationNaNCompared(callData, t) ==
  IF callData.sentAt.kind = "missing" THEN TRUE
  ELSE IF ~DateParse(callData.sentAt).finite THEN FALSE
  ELSE t - DateParse(callData.sentAt).ms > BACKGROUND_CALL_EXPIRY_THRESHOLD_MS

\* The age compared in seconds against the threshold in milliseconds.
isStaleCallNotificationInSeconds(callData, t) ==
  IF callData.sentAt.kind = "missing" THEN TRUE
  ELSE IF ~DateParse(callData.sentAt).finite THEN TRUE
  ELSE (t - DateParse(callData.sentAt).ms) \div 1000 > BACKGROUND_CALL_EXPIRY_THRESHOLD_MS

\* The age compared with >= : a signal aged exactly the threshold is stale.
isStaleCallNotificationAtThreshold(callData, t) ==
  IF callData.sentAt.kind = "missing" THEN TRUE
  ELSE IF ~DateParse(callData.sentAt).finite THEN TRUE
  ELSE t - DateParse(callData.sentAt).ms >= BACKGROUND_CALL_EXPIRY_THRESHOLD_MS

isStaleCallNotification(callData, t) ==
  IF callData.sentAt.kind = "missing" THEN TRUE
  ELSE IF ~DateParse(callData.sentAt).finite THEN TRUE
  ELSE t - DateParse(callData.sentAt).ms > BACKGROUND_CALL_EXPIRY_THRESHOLD_MS

(* ---------------- native call UI behind RNCallKeep -------------------- *)
\* The JavaScript and native state a handler reads and writes, as one record,
\* so that the handlers run by one dispatch compose in sequence.
Snap ==
  [ cur |-> currentCallUUID, setup |-> isSetup, svcL |-> svcListeners,
    bgL |-> bgListeners, aT |-> answerTimers, bgT |-> bgTimer,
    live |-> liveCalls, ans |-> answeredCalls, ev |-> events,
    dlog |-> displayLog, endReqs |-> endReqs, endAll |-> endAllReqs, endF |-> endFailed,
    fg |-> fgReqs, ansH |-> answerHandled ]

Commit(S) ==
  /\ currentCallUUID' = S.cur
  /\ isSetup' = S.setup
  /\ svcListeners' = S.svcL
  /\ bgListeners' = S.bgL
  /\ answerTimers' = S.aT
  /\ bgTimer' = S.bgT
  /\ liveCalls' = S.live
  /\ answeredCalls' = S.ans
  /\ events' = S.ev
  /\ displayLog' = S.dlog
  /\ endReqs' = S.endReqs
  /\ endAllReqs' = S.endAll
  /\ endFailed' = S.endF
  /\ fgReqs' = S.fg
  /\ answerHandled' = S.ansH

EndEvent(u) == [type |-> "endCall", uuid |-> u]
AnswerEvent(u) == [type |-> "answerCall", uuid |-> u]
\* The events of the in-call controls: DTMF digits, mute and hold.
InCallEventTypes ==
  {"didPerformDTMFAction", "didPerformSetMutedCallAction", "didToggleHoldCallAction"}
InCallEvent(type, u) == [type |-> type, uuid |-> u]

RECURSIVE EndEventsOf(_)
\* One endCall event per call of the set, in a fixed order.
EndEventsOf(calls) ==
  IF calls = {} THEN << >>
  ELSE LET first == CHOOSE x \in calls : TRUE
       IN << EndEvent(first) >> \o EndEventsOf(calls \ {first})

\* RNCallKeep.displayIncomingCall / reportNewIncomingCall returned: the call is shown.
NativeDisplay(S, u, r, path) ==
  [S EXCEPT !.dlog = @ \cup {[run |-> r, uuid |-> u, path |-> path]},
            !.live = @ \cup {u}]

\* The display request was issued and threw: nothing is shown.
NativeDisplayThrows(S, u, r, path) ==
  [S EXCEPT !.dlog = @ \cup {[run |-> r, uuid |-> u, path |-> path]}]

\* RNCallKeep.endCall(u) returned: a live call u ends and the native side
\* reports it with an endCall event; for a call that is not live nothing happens.
NativeEndCall(S, u) ==
  LET S1 == [S EXCEPT !.endReqs[u] = @ + 1]
  IN IF u \in S.live
       THEN [S1 EXCEPT !.live = @ \ {u}, !.ans = @ \ {u},
                       !.ev = Append(@, EndEvent(u))]
       ELSE S1

\* RNCallKeep.endAllCalls() returned: every live call ends.
NativeEndAllCalls(S) ==
  [S EXCEPT !.endAll = @ + 1, !.live = {}, !.ans = {},
            !.ev = @ \o EndEventsOf(S.live)]

\* An end that goes on to end all calls whether or not the specific end threw.
EndWithFallbackAlways(S, u, f) ==
  LET S1 == IF "end" \notin f THEN NativeEndCall(S, u)
            ELSE [S EXCEPT !.endReqs[u] = @ + 1, !.endF = @ + 1]
  IN IF "endAll" \notin f THEN NativeEndAllCalls(S1)
     ELSE [S1 EXCEPT !.endAll = @ + 1]

\* try { RNCallKeep.endCall(u) } catch { try { RNCallKeep.endAllCalls() } catch {} }
EndWithFallback(S, u, f) ==
  IF "end" \notin f THEN NativeEndCall(S, u)
  ELSE LET S1 == [S EXCEPT !.endReqs[u] = @ + 1, !.endF = @ + 1]
       IN IF "endAll" \notin f THEN NativeEndAllCalls(S1)
          ELSE [S1 EXCEPT !.endAll = @ + 1]

\* RNCallKeep.backToForeground(), counted whether it returns or throws.
BackToForeground(S) == [S EXCEPT !.fg = @ + 1]

(* --------------------- CallKeepService handlers ----------------------- *)
\* CallKeepService.displayIncomingCall(callerName, providedUUID)
displayIncomingCall(S, u, r, f) ==
  LET S1 == [S EXCEPT !.cur = u]
  IN IF "display" \notin f
       THEN NativeDisplay(S1, u, r, "service")
       ELSE [NativeDisplayThrows(S1, u, r, "service") EXCEPT !.cur = Null]

\* CallKeepService.endCall(callUUID)
endCall(S, u, f) == EndWithFallback(S, u, f)

\* CallKeepService.onAnswerCall: the end of the call is left to a 200 ms timer.
onAnswerCall(S, u, f) ==
  [BackToForeground([S EXCEPT !.cur = u]) EXCEPT !.aT[u] = @ + 1,
                                                 !.ansH = @ \cup {u}]

\* CallKeepService.onEndCall
onEndCall(S, u, f) ==
  EndWithFallback([S EXCEPT !.cur = IF @ = u THEN Null ELSE @], u, f)

\* CallKeepService.onDTMFAction: the digits are logged.
onDTMFAction(S, u) == S

\* CallKeepService.onMuteCall: the action is logged.
onMuteCall(S, u) == S

\* A hold handler that ends the call it is told about.
onHoldCallEnds(S, u) == NativeEndCall(S, u)

\* CallKeepService.onHoldCall: the action is logged.
onHoldCall(S, u) == S

(* --------------- listeners of the background handler ------------------ *)
\* A clearIncomingCallTimeout that leaves the timer armed.
clearIncomingCallTimeoutKept(S, r) == S

clearIncomingCallTimeout(S, r) == [S EXCEPT !.bgT = @ \ {r}]

\* RNCallKeep.removeEventListener(type) removes every listener of the type,
\* whoever registered it.
cleanUpRNCallKeepHandlers(S, r) ==
  [clearIncomingCallTimeout(S, r) EXCEPT !.svcL = 0, !.bgL = {}]

answerCallHandler(S, r, u, f) ==
  LET S1 == BackToForeground(
              [clearIncomingCallTimeout(S, r) EXCEPT !.ansH = @ \cup {u}])
      S2 == IF "foreground" \in f
              THEN IF "endAll" \notin f THEN NativeEndAllCalls(S1)
                   ELSE [S1 EXCEPT !.endAll = @ + 1]
              ELSE EndWithFallback(S1, u, f)
  IN cleanUpRNCallKeepHandlers(S2, r)

endCallHandler(S, r, u) ==
  cleanUpRNCallKeepHandlers(clearIncomingCallTimeout(S, r), r)

\* The callback of startIncomingCallTimeout's timer.
incomingCallTimeoutCallback(S, r, u, f) ==
  cleanUpRNCallKeepHandlers(EndWithFallback(S, u, f), r)

(* ------------------------ event dispatch ------------------------------ *)
RECURSIVE ServiceListeners(_, _, _, _)
\* Every registration of the service's listener for the event, in turn.
ServiceListeners(S, n, e, f) ==
  IF n = 0 THEN S
  ELSE ServiceListeners(
         IF e.type = "answerCall" THEN onAnswerCall(S, e.uuid, f)
         ELSE IF e.type = "endCall" THEN onEndCall(S, e.uuid, f)
         ELSE IF e.type = "didPerformDTMFAction" THEN onDTMFAction(S, e.uuid)
         ELSE IF e.type = "didPerformSetMutedCallAction" THEN onMuteCall(S, e.uuid)
         ELSE onHoldCall(S, e.uuid),
         n - 1, e, f)

RECURSIVE BackgroundListeners(_, _, _, _, _)
\* The listeners of the background runs registered when the event is emitted:
\* the handler registers listeners for answerCall and endCall only.
BackgroundListeners(S, registered, r, e, f) ==
  IF r > MaxRuns THEN S
  ELSE BackgroundListeners(
         IF r \notin registered THEN S
         ELSE IF e.type = "answerCall" THEN answerCallHandler(S, r, e.uuid, f)
         ELSE IF e.type = "endCall" THEN endCallHandler(S, r, e.uuid)
         ELSE S,
         registered, r + 1, e, f)

\* The emitter calls the listeners registered at the time of the emit.
Emit(S, e, f) ==
  BackgroundListeners(ServiceListeners(S, S.svcL, e, f), S.bgL, 1, e, f)

(* ------------------------------- Init --------------------------------- *)
\* The state of a freshly launched process on one of the platforms.
Launched(platforms, appStates, stores) ==
  /\ platform \in platforms
  /\ appState \in appStates
  /\ now = StartTime
  /\ storedIds \in stores
  /\ pc = [r \in Runs |-> "idle"]
  /\ sig = [r \in Runs |-> NoData]
  /\ entry = [r \in Runs |-> "none"]
  /\ receivedAt = [r \in Runs |-> 0]
  /\ completions = [r \in Runs |-> NoCompletion]
  /\ dedup = [r \in Runs |-> NoDedup]
  /\ outcome = [r \in Runs |-> "none"]
  /\ overlapped = {}
  /\ isSetup = FALSE
  /\ currentCallUUID = Null
  /\ svcListeners = 0
  /\ bgListeners = {}
  /\ answerTimers = [u \in UUIDs |-> 0]
  /\ bgTimer = {}
  /\ liveCalls = {}
  /\ answeredCalls = {}
  /\ events = << >>
  /\ displayLog = {}
  /\ endReqs = [u \in UUIDs |-> 0]
  /\ endAllReqs = 0
  /\ endFailed = 0
  /\ fgReqs = 0
  /\ answerHandled = {}
  /\ handled = 0
  /\ appInit = "pending"
  /\ unhandled = {}
  /\ admittedBefore = {}
  /\ admissions = (IF storedIds.has THEN storedIds.ids ELSE << >>)
  /\ appUrl = Null
  /\ deviceTokenStore = Null
  /\ webViewUrl = ""
  /\ showWebView = FALSE
  /\ browserCalls = 0
  /\ deviceToken = Null
  /\ pushTokens = [expo |-> Null, voip |-> Null, fcm |-> Null]
  /\ tokenCalls = [k \in Mounts |-> NoTokenCall]
  /\ launchWrites = {}
  /\ launchTimers = << >>
  /\ reminders = {}
  /\ outbox = << >>
  /\ appResumeTimer = FALSE
  /\ msgCount = 0
  /\ lastEnvelope = NoEnvelope
  /\ lastOutcome = "none"

\* Signals are delivered in the order of their numbers.
NextToDeliver(r) == pc[r] = "idle" /\ \A q \in Runs : q < r => pc[q] # "idle"

Finish(r, how) ==
  /\ pc' = [pc EXCEPT ![r] = "done"]
  /\ outcome' = [outcome EXCEPT ![r] = how]

(* ----------- Android: background message handler (index.ts) ----------- *)
\* A handler that registers its listeners before it looks at the message.
BgReceiveListenersFirst(r, s) ==
  /\ platform = "android" /\ appState # "active"
  /\ NextToDeliver(r)
  /\ sig' = [sig EXCEPT ![r] = s]
  /\ entry' = [entry EXCEPT ![r] = "background"]
  /\ receivedAt' = [receivedAt EXCEPT ![r] = now]
  /\ bgListeners' = bgListeners \cup {r}
  /\ IF s.type # "incoming_call" THEN Finish(r, "ignored")
     ELSE IF s.messageId = NoMessageId THEN Finish(r, "noMessageId")
     ELSE pc' = [pc EXCEPT ![r] = "dedupRead"] /\ UNCHANGED outcome
  /\ UNCHANGED << bridgeVars, envVars, completions, dedupVars, isSetup, currentCallUUID,
                  svcListeners, answerTimers, bgTimer, liveCalls, answeredCalls,
                  events, displayLog, endReqs, endAllReqs, endFailed, fgReqs, answerHandled, handled,
                  appInit, unhandled >>

\* The handler up to its call of handleMessageDeduplication.
BgReceive(r, s) ==
  /\ platform = "android" /\ appState # "active"
  /\ NextToDeliver(r)
  /\ sig' = [sig EXCEPT ![r] = s]
  /\ entry' = [entry EXCEPT ![r] = "background"]
  /\ receivedAt' = [receivedAt EXCEPT ![r] = now]
  /\ IF s.type # "incoming_call" THEN Finish(r, "ignored")
     ELSE IF s.messageId = NoMessageId THEN Finish(r, "noMessageId")
     ELSE pc' = [pc EXCEPT ![r] = "dedupRead"] /\ UNCHANGED outcome
  /\ UNCHANGED << bridgeVars, envVars, completions, dedupVars, isSetup, currentCallUUID, svcListeners,
                  bgListeners, answerTimers, bgTimer, liveCalls, answeredCalls,
                  events, displayLog, endReqs, endAllReqs, endFailed, fgReqs, answerHandled, handled,
                  appInit, unhandled >>

\* A membership test that looks at the newest stored id only.
IsDuplicateNewestOnly(storedList, messageId) ==
  Len(storedList) > 0 /\ storedList[1] = messageId

\* storedIds.includes(messageId)
IsDuplicate(storedList, messageId) == Includes(storedList, messageId)

\* handleMessageDeduplication from the result of getItem to the call of setItem.
handleMessageDeduplicationRead(r, readOk) ==
  /\ pc[r] = "dedupRead"
  /\ LET messageId == sig[r].messageId
         ids == IF readOk THEN StoredList ELSE << >>
         limitedIds == Slice(<< messageId >> \o ids, MAX_STORED_MESSAGES)
     IN /\ dedup' = [dedup EXCEPT ![r] =
                       [read |-> IF readOk THEN "ok" ELSE "failed",
                        retained |-> Includes(StoredList, messageId),
                        limitedIds |-> limitedIds,
                        wrote |-> FALSE]]
        /\ IF IsDuplicate(ids, messageId)
             THEN Finish(r, "duplicate") /\ UNCHANGED overlapped
             ELSE /\ pc' = [pc EXCEPT ![r] = "dedupWrite"]
                  /\ overlapped' =
                       overlapped \cup {{r, q} : q \in {x \in Runs : pc[x] = "dedupWrite"}}
                  /\ UNCHANGED outcome
  /\ UNCHANGED << bridgeVars, envVars, completions, storedIds, admittedBefore, admissions, sig, entry, receivedAt, isSetup,
                  currentCallUUID, svcListeners, bgListeners, answerTimers, bgTimer,
                  liveCalls, answeredCalls, events, displayLog, endReqs, endAllReqs, endFailed, fgReqs,
                  answerHandled, handled, appInit, unhandled >>

\* A write whose failure makes handleMessageDeduplication report a duplicate.
handleMessageDeduplicationWriteFailsClosed(r, writeOk) ==
  /\ pc[r] = "dedupWrite"
  /\ storedIds' = IF writeOk THEN [has |-> TRUE, ids |-> dedup[r].limitedIds]
                  ELSE storedIds
  /\ dedup' = [dedup EXCEPT ![r].wrote = writeOk]
  /\ IF writeOk
       THEN /\ admissions' = << sig[r].messageId >> \o admissions
            /\ pc' = [pc EXCEPT ![r] = "bgPresent"]
            /\ UNCHANGED outcome
       ELSE /\ Finish(r, "duplicate")
            /\ UNCHANGED admissions
  /\ UNCHANGED << bridgeVars, envVars, completions, sig, entry, receivedAt, overlapped, admittedBefore, isSetup,
                  currentCallUUID, svcListeners, bgListeners, answerTimers,
                  bgTimer, liveCalls, answeredCalls, events, displayLog, endReqs,
                  endAllReqs, endFailed, fgReqs, answerHandled, handled, appInit, unhandled >>

\* setItem settles and handleMessageDeduplication returns false.
handleMessageDeduplicationWrite(r, writeOk) ==
  /\ pc[r] = "dedupWrite"
  /\ storedIds' = IF writeOk THEN [has |-> TRUE, ids |-> dedup[r].limitedIds]
                  ELSE storedIds
  /\ dedup' = [dedup EXCEPT ![r].wrote = writeOk]
  /\ admissions' = << sig[r].messageId >> \o admissions
  /\ pc' = [pc EXCEPT ![r] = "bgPresent"]
  /\ UNCHANGED << bridgeVars, envVars, completions, sig, entry, receivedAt, outcome, overlapped, admittedBefore, isSetup,
                  currentCallUUID, svcListeners, bgListeners, answerTimers,
                  bgTimer, liveCalls, answeredCalls, events, displayLog, endReqs,
                  endAllReqs, endFailed, fgReqs, answerHandled, handled, appInit, unhandled >>

\* The handler after the duplicate check: staleness, listeners, display, timeout.
BgPresent(r, available, f) ==
  /\ pc[r] = "bgPresent"
  /\ IF isStaleCallNotification(sig[r], now)
       THEN Finish(r, "stale") /\ Commit(Snap)
     ELSE IF ~available
       THEN Finish(r, "unavailable") /\ Commit(Snap)
     ELSE LET callUUID == sig[r].callId
              S1 == [Snap EXCEPT !.bgL = @ \cup {r}]
          IN IF "display" \in f
               THEN /\ Finish(r, "displayFailed")
                    /\ Commit(NativeDisplayThrows(S1, callUUID, r, "background"))
               ELSE /\ Finish(r, "presented")
                    /\ Commit([NativeDisplay(S1, callUUID, r, "background")
                                 EXCEPT !.bgT = @ \cup {r}])
  /\ UNCHANGED << bridgeVars, envVars, completions, dedupVars, sig, entry, receivedAt, handled, appInit, unhandled >>

\* The timer armed by startIncomingCallTimeout fires.
BgTimeout(r, f) ==
  /\ r \in bgTimer
  /\ Commit(incomingCallTimeoutCallback(Snap, r, sig[r].callId, f))
  /\ UNCHANGED << bridgeVars, envVars, completions, dedupVars, runVars, handled, appInit, unhandled >>

(* ------------- CallKeepService.setup and handleIncomingCall ----------- *)
\* handleIncomingCall up to its first await: with the service set up it
\* displays the call at once, otherwise it waits for RNCallKeep.setup.
handleIncomingCall(r, f) ==
  LET callUUID == UuidV4(r)
      S1 == [Snap EXCEPT !.cur = callUUID]
  IN IF isSetup
       THEN /\ Finish(r, IF "display" \in f THEN "displayFailed" ELSE "presented")
            /\ Commit(displayIncomingCall(S1, callUUID, r, f))
       ELSE /\ pc' = [pc EXCEPT ![r] = "setupNative"]
            /\ UNCHANGED outcome
            /\ Commit(S1)

\* RNCallKeep.setup settles for a call of setup() made by handleIncomingCall:
\* on success the listeners are registered; a failure is thrown again by
\* handleIncomingCall, whose promise no entry point awaits.
SetupNative(r, ok) ==
  /\ pc[r] = "setupNative"
  /\ IF ok
       THEN /\ pc' = [pc EXCEPT ![r] = "setupPermissions"]
            /\ svcListeners' = svcListeners + 1
            /\ UNCHANGED << outcome, unhandled >>
       ELSE /\ Finish(r, "threw")
            /\ unhandled' = unhandled \cup {r}
            /\ UNCHANGED svcListeners
  /\ UNCHANGED << bridgeVars, envVars, completions, dedupVars, sig, entry, receivedAt, isSetup, currentCallUUID,
                  bgListeners, answerTimers, bgTimer, liveCalls, answeredCalls,
                  events, displayLog, endReqs, endAllReqs, endFailed, fgReqs, answerHandled, handled, appInit >>

\* The platform permission step of setup() ends, isSetup is set and
\* handleIncomingCall goes on to displayIncomingCall.
SetupFinish(r, f) ==
  /\ pc[r] = "setupPermissions"
  /\ Finish(r, IF "display" \in f THEN "displayFailed" ELSE "presented")
  /\ Commit(displayIncomingCall([Snap EXCEPT !.setup = TRUE], UuidV4(r), r, f))
  /\ UNCHANGED << bridgeVars, envVars, completions, dedupVars, sig, entry, receivedAt, handled, appInit, unhandled >>

\* The App initialisation effect reaches `await CallKeepService.setup()`.
AppInitSetup ==
  /\ appInit = "pending"
  /\ appInit' = IF isSetup THEN "done" ELSE "setupNative"
  /\ UNCHANGED << bridgeVars, envVars, completions, dedupVars, runVars, isSetup, currentCallUUID,
                  svcListeners, bgListeners, answerTimers, bgTimer, liveCalls,
                  answeredCalls, events, displayLog, endReqs, endAllReqs, endFailed, fgReqs, answerHandled,
                  handled, unhandled >>

\* RNCallKeep.setup settles for the effect's call; the effect catches a failure.
AppInitNative(ok) ==
  /\ appInit = "setupNative"
  /\ appInit' = IF ok THEN "setupPermissions" ELSE "done"
  /\ svcListeners' = IF ok THEN svcListeners + 1 ELSE svcListeners
  /\ UNCHANGED << bridgeVars, envVars, completions, dedupVars, runVars, isSetup, currentCallUUID,
                  bgListeners, answerTimers, bgTimer, liveCalls, answeredCalls,
                  events, displayLog, endReqs, endAllReqs, endFailed, fgReqs, answerHandled, handled,
                  unhandled >>

AppInitFinish ==
  /\ appInit = "setupPermissions"
  /\ appInit' = "done"
  /\ isSetup' = TRUE
  /\ UNCHANGED << bridgeVars, envVars, completions, dedupVars, runVars, currentCallUUID, svcListeners,
                  bgListeners, answerTimers, bgTimer, liveCalls, answeredCalls,
                  events, displayLog, endReqs, endAllReqs, endFailed, fgReqs, answerHandled, handled,
                  unhandled >>

(* ------------- Android: foreground FCM listener (App.tsx) ------------- *)
FgOnMessage(r, s, f) ==
  /\ platform = "android" /\ appState = "active"
  /\ NextToDeliver(r)
  /\ sig' = [sig EXCEPT ![r] = s]
  /\ entry' = [entry EXCEPT ![r] = "foreground"]
  /\ receivedAt' = [receivedAt EXCEPT ![r] = now]
  /\ IF s.type # "incoming_call" THEN Finish(r, "notification") /\ Commit(Snap)
     ELSE IF isStaleCallNotification(s, now) THEN Finish(r, "stale") /\ Commit(Snap)
     ELSE handleIncomingCall(r, f)
  /\ UNCHANGED << bridgeVars, envVars, completions, dedupVars, handled, appInit, unhandled >>

(* ------------------- iOS: push registry and VoIP listener ------------- *)
\* ISO8601DateFormatter with .withInternetDateTime and .withFractionalSeconds
\* reads only timestamps written with fractional seconds.
DateFromString(sentAt) == [ok |-> sentAt.kind = "iso", ms |-> sentAt.ms]

\* AppDelegate.isStaleCallNotification(payload:)
isStaleCallNotificationNative(payload, t) ==
  IF payload.sentAt.kind = "missing" THEN TRUE
  ELSE IF ~DateFromString(payload.sentAt).ok THEN TRUE
  ELSE t - DateFromString(payload.sentAt).ms > BACKGROUND_CALL_EXPIRY_THRESHOLD_MS

\* CXProvider is told the call ended: no endCall event goes to JavaScript.
NativeReportEnd(S, u) ==
  [S EXCEPT !.endReqs[u] = @ + 1, !.live = @ \ {u}, !.ans = @ \ {u}]

\* AppDelegate.pushRegistry(_:didReceiveIncomingPushWith:for:completion:).
\* jsListening: the JavaScript notification listener is registered, so the
\* push forwarded to React Native reaches it; otherwise it is queued.
PushRegistry(r, s, jsListening) ==
  /\ platform = "ios"
  /\ NextToDeliver(r)
  /\ appState = "active" => jsListening
  /\ sig' = [sig EXCEPT ![r] = s]
  /\ entry' = [entry EXCEPT ![r] = "voip"]
  /\ receivedAt' = [receivedAt EXCEPT ![r] = now]
  /\ LET uuid == IF s.callId = NoCallId THEN NativeUuid(r) ELSE s.callId
         S1 == NativeDisplay(Snap, uuid, r, "native")
     IN IF appState # "active"
          THEN /\ Commit(IF isStaleCallNotificationNative(s, now)
                           THEN NativeReportEnd(S1, uuid) ELSE S1)
               /\ completions' = [completions EXCEPT ![r] =
                                    [at |-> "callkit", key |-> uuid, invoked |-> 1]]
          ELSE /\ Commit(Snap)
               /\ completions' = [completions EXCEPT ![r] =
                                    [at |-> "manager", key |-> uuid, invoked |-> 0]]
  /\ IF jsListening
       THEN pc' = [pc EXCEPT ![r] = "voipNotification"] /\ UNCHANGED outcome
       ELSE Finish(r, "queued")
  /\ UNCHANGED << bridgeVars, envVars, dedupVars, handled, appInit, unhandled >>

\* VoipPushNotification.onVoipNotificationCompleted(key): the handlers kept
\* under the key are invoked and dropped; an absent key matches none.
onVoipNotificationCompleted(C, key) ==
  [q \in Runs |->
     IF C[q].at = "manager" /\ key # NoCallId /\ C[q].key = key
       THEN [C[q] EXCEPT !.at = "released", !.invoked = @ + 1]
       ELSE C[q]]

\* The "notification" listener of setupVoIPPushNotifications.
VoipNotification(r, f) ==
  /\ pc[r] = "voipNotification"
  /\ IF isStaleCallNotification(sig[r], now)
       THEN Finish(r, "stale") /\ Commit(Snap) /\ UNCHANGED completions
       ELSE /\ handleIncomingCall(r, f)
            /\ completions' = onVoipNotificationCompleted(completions, sig[r].callId)
  /\ UNCHANGED << bridgeVars, envVars, dedupVars, sig, entry, receivedAt, handled, appInit, unhandled >>

\* The "didLoadWithEvents" listener, for a push that was queued before the
\* listeners were registered: its timer completes the notification.
didLoadWithEvents(r) ==
  /\ pc[r] = "done" /\ outcome[r] = "queued"
  /\ outcome' = [outcome EXCEPT ![r] = "completedQueued"]
  /\ completions' = onVoipNotificationCompleted(completions, sig[r].callId)
  /\ UNCHANGED << bridgeVars, envVars, dedupVars, pc, sig, entry, receivedAt, isSetup,
                  currentCallUUID, svcListeners, bgListeners, answerTimers, bgTimer,
                  liveCalls, answeredCalls, events, displayLog, endReqs, endAllReqs,
                  endFailed, fgReqs, answerHandled, handled, appInit, unhandled >>

\* sendMessageToWebView: injected only while webViewRef.current is set.
sendMessageToWebView(box, message) == IF showWebView THEN Append(box, message) ELSE box

(* ---------------------- timers, events, environment ------------------- *)
\* The 200 ms timer of onAnswerCall fires: this.endCall(callUUID).
AnswerTimer(u, f) ==
  /\ answerTimers[u] > 0
  /\ Commit(endCall([Snap EXCEPT !.aT[u] = @ - 1], u, f))
  /\ UNCHANGED << bridgeVars, envVars, completions, dedupVars, runVars, handled, appInit, unhandled >>

\* The oldest pending native event is emitted to the JavaScript listeners.
Dispatch(f) ==
  /\ events # << >>
  /\ Commit(Emit([Snap EXCEPT !.ev = Tail(events)], Head(events), f))
  /\ handled' = handled + 1
  /\ UNCHANGED << bridgeVars, envVars, completions, dedupVars, runVars, appInit, unhandled >>

\* The user answers a ringing call in the native call UI.
UserAnswer(u) ==
  /\ u \in liveCalls \ answeredCalls
  /\ answeredCalls' = answeredCalls \cup {u}
  /\ events' = Append(events, AnswerEvent(u))
  /\ UNCHANGED << bridgeVars, envVars, completions, dedupVars, runVars, isSetup, currentCallUUID,
                  svcListeners, bgListeners, answerTimers, bgTimer, liveCalls,
                  displayLog, endReqs, endAllReqs, endFailed, fgReqs, answerHandled, handled, appInit,
                  unhandled >>

\* The user declines or hangs up a call in the native call UI.
UserEnd(u) ==
  /\ u \in liveCalls
  /\ liveCalls' = liveCalls \ {u}
  /\ answeredCalls' = answeredCalls \ {u}
  /\ events' = Append(events, EndEvent(u))
  /\ UNCHANGED << bridgeVars, envVars, completions, dedupVars, runVars, isSetup, currentCallUUID,
                  svcListeners, bgListeners, answerTimers, bgTimer, displayLog,
                  endReqs, endAllReqs, endFailed, fgReqs, answerHandled, handled, appInit, unhandled >>

\* The user presses a key of the dial pad, mutes or holds an answered call in
\* the native call UI.
UserInCallAction(u, type) ==
  /\ u \in answeredCalls
  /\ handled + Len(events) < MaxEvents
  /\ events' = Append(events, InCallEvent(type, u))
  /\ UNCHANGED << bridgeVars, envVars, completions, dedupVars, runVars, isSetup, currentCallUUID,
                  svcListeners, bgListeners, answerTimers, bgTimer, liveCalls, answeredCalls,
                  displayLog, endReqs, endAllReqs, endFailed, fgReqs, answerHandled, handled,
                  appInit, unhandled >>

\* The application changes state and the AppState "change" listener of App
\* runs: leaving "active" sends the background message at once, becoming
\* active (re)starts the resume timer, and appState.current follows.
AppStateChange(nextAppState) ==
  /\ nextAppState # appState
  /\ Len(outbox) < MaxSent
  /\ appState' = nextAppState
  /\ outbox' = IF appState = "active" /\ nextAppState \in {"inactive", "background"}
                 THEN sendMessageToWebView(outbox, [type |-> "background"])
                 ELSE outbox
  /\ appResumeTimer' = IF appState \in {"inactive", "background"} /\ nextAppState = "active"
                         THEN TRUE
                         ELSE appResumeTimer
  /\ UNCHANGED << appUrl, deviceTokenStore, webViewUrl, showWebView, browserCalls, deviceToken,
                  pushTokens, tokenCalls, launchWrites, launchTimers, reminders, msgCount,
                  lastEnvelope, lastOutcome,
                  platform, now, completions, dedupVars, runVars, isSetup, currentCallUUID,
                  svcListeners, bgListeners, answerTimers, bgTimer, liveCalls,
                  answeredCalls, events, displayLog, endReqs, endAllReqs, endFailed, fgReqs, answerHandled,
                  handled, appInit, unhandled >>

\* The resume timer fires (APP_RESUME_DELAY_MS after the application became
\* active): runAppResume sends the foreground message.
runAppResume ==
  /\ appResumeTimer
  /\ appResumeTimer' = FALSE
  /\ outbox' = sendMessageToWebView(outbox, [type |-> "foreground"])
  /\ UNCHANGED << callVars, appUrl, deviceTokenStore, webViewUrl, showWebView, browserCalls,
                  deviceToken, pushTokens, tokenCalls, launchWrites, launchTimers, reminders,
                  msgCount, lastEnvelope, lastOutcome >>

\* One millisecond passes.
Tick ==
  /\ now < StartTime + MaxTicks
  /\ now' = now + 1
  /\ UNCHANGED << bridgeVars, platform, appState, completions, dedupVars, runVars, isSetup,
                  currentCallUUID, svcListeners, bgListeners, answerTimers,
                  bgTimer, liveCalls, answeredCalls, events, displayLog, endReqs,
                  endAllReqs, endFailed, fgReqs, answerHandled, handled, appInit, unhandled >>

\* One call of isStaleCallNotification(callData) at the present Date.now(),
\* its return value recorded as the outcome.
StaleCheck(r, s) ==
  /\ NextToDeliver(r)
  /\ sig' = [sig EXCEPT ![r] = s]
  /\ entry' = [entry EXCEPT ![r] = "check"]
  /\ receivedAt' = [receivedAt EXCEPT ![r] = now]
  /\ Finish(r, IF isStaleCallNotification(s, now) THEN "stale" ELSE "fresh")
  /\ UNCHANGED << bridgeVars, envVars, completions, dedupVars, isSetup, currentCallUUID, svcListeners,
                  bgListeners, answerTimers, bgTimer, liveCalls, answeredCalls,
                  events, displayLog, endReqs, endAllReqs, endFailed, fgReqs, answerHandled, handled,
                  appInit, unhandled >>

(* --------------------------- specification ---------------------------- *)
(* ---------------------- web-view bridge (App.tsx) --------------------- *)
\* Runs of the effect on [hasLaunchedOnce]: at mount, and when the
\* initialisation effect has set hasLaunchedOnce.
OpenBrowserCalls == 2

\* openBrowser, called by a run of the effect on [hasLaunchedOnce]: the stored
\* URL, or the default one, is shown.
openBrowser ==
  /\ browserCalls < OpenBrowserCalls
  /\ browserCalls' = browserCalls + 1
  /\ webViewUrl' = IF appUrl = Null THEN APP_URL ELSE appUrl
  /\ showWebView' = TRUE
  /\ UNCHANGED << callVars, appResumeTimer, appUrl, deviceTokenStore, deviceToken, pushTokens, tokenCalls,
                  launchWrites, launchTimers, reminders, outbox, msgCount,
                  lastEnvelope, lastOutcome >>

\* An identifier that leaves the timestamp out.
CallIdentifierOfUser(username, timestamp) == "call-" \o username

\* `call-${username}-${timestamp}`
CallIdentifier(username, timestamp) == "call-" \o username \o "-" \o ToString(timestamp)

\* A reply that carries each push token as soon as that token is known.
AppParamsEachToken ==
  [ type |-> "APP_PARAMS", appVersion |-> "version",
    deviceToken |-> deviceToken,
    expoPushToken |-> pushTokens.expo,
    voipToken |-> pushTokens.voip,
    fcmToken |-> pushTokens.fcm ]

\* The APP_PARAMS reply; an absent field is Null.
AppParams ==
  LET known == /\ deviceToken # Null
               /\ (pushTokens.expo # Null \/ pushTokens.voip # Null \/ pushTokens.fcm # Null)
  IN [ type |-> "APP_PARAMS", appVersion |-> "version",
       deviceToken |-> IF known THEN deviceToken ELSE Null,
       expoPushToken |-> IF known THEN pushTokens.expo ELSE Null,
       voipToken |-> IF known THEN pushTokens.voip ELSE Null,
       fcmToken |-> IF known THEN pushTokens.fcm ELSE Null ]

\* A routing that compares data.type without regard to case.
RouteIgnoringCase(env) ==
  IF env.json # "object" THEN "caught"
  ELSE IF env.type \in {"launch", "Launch"} THEN "launch"
  ELSE IF env.type \in {"SCHEDULE_CALL", "CANCEL_SCHEDULE_CALL", "APP_PARAMS"}
    THEN env.type
  ELSE "unexpected"

\* The branch of handleWebViewMessage an envelope takes: JSON.parse throwing
\* and data.type read from null end in the catch block.
Route(env) ==
  IF env.json # "object" THEN "caught"
  ELSE IF env.type \in {"launch", "SCHEDULE_CALL", "CANCEL_SCHEDULE_CALL", "APP_PARAMS"}
    THEN env.type
  ELSE "unexpected"

\* handleWebViewMessage up to its first await that another handler can
\* overtake; nativeOk: the notification scheduler does not throw.
handleWebViewMessage(env, nativeOk) ==
  /\ showWebView /\ msgCount < MaxMessages
  /\ msgCount' = msgCount + 1
  /\ lastEnvelope' = env
  /\ LET branch == Route(env)
         identifier == CallIdentifier(env.username, env.timestamp)
     IN CASE branch = "launch" ->
               /\ showWebView' = FALSE
               /\ launchWrites' = launchWrites \cup {[n |-> msgCount + 1, url |-> env.url]}
               /\ lastOutcome' = "launch"
               /\ UNCHANGED << reminders, outbox >>
          [] branch = "SCHEDULE_CALL" ->
               /\ IF env.timestamp <= now
                    THEN lastOutcome' = "past" /\ UNCHANGED reminders
                    ELSE IF nativeOk
                      THEN reminders' = reminders \cup {identifier} /\ lastOutcome' = "scheduled"
                      ELSE lastOutcome' = "caught" /\ UNCHANGED reminders
               /\ UNCHANGED << showWebView, launchWrites, outbox >>
          [] branch = "CANCEL_SCHEDULE_CALL" ->
               /\ IF nativeOk
                    THEN reminders' = reminders \ {identifier} /\ lastOutcome' = "cancelled"
                    ELSE lastOutcome' = "caught" /\ UNCHANGED reminders
               /\ UNCHANGED << showWebView, launchWrites, outbox >>
          [] branch = "APP_PARAMS" ->
               /\ outbox' = sendMessageToWebView(outbox, AppParams)
               /\ lastOutcome' = "replied"
               /\ UNCHANGED << showWebView, launchWrites, reminders >>
          [] OTHER ->
               /\ lastOutcome' = branch
               /\ UNCHANGED << showWebView, launchWrites, reminders, outbox >>
  /\ UNCHANGED << callVars, appResumeTimer, browserCalls, appUrl, deviceTokenStore, webViewUrl, deviceToken, pushTokens,
                  tokenCalls, launchTimers >>

\* A launch handler that sets its timer whether or not the URL was stored.
LaunchPersistTimerAlways(w, ok) ==
  /\ w \in launchWrites
  /\ launchWrites' = launchWrites \ {w}
  /\ launchTimers' = Append(launchTimers, w.url)
  /\ IF ok THEN appUrl' = w.url ELSE UNCHANGED appUrl
  /\ UNCHANGED << callVars, appResumeTimer, browserCalls, deviceTokenStore, webViewUrl, showWebView, deviceToken,
                  pushTokens, tokenCalls, reminders, outbox, msgCount, lastEnvelope,
                  lastOutcome >>

\* The launch handler after AsyncStorage.setItem settles: the timer is set
\* when it resolved; a rejection ends in the catch block.
LaunchPersist(w, ok) ==
  /\ w \in launchWrites
  /\ launchWrites' = launchWrites \ {w}
  /\ IF ok THEN /\ appUrl' = w.url
                /\ launchTimers' = Append(launchTimers, w.url)
           ELSE UNCHANGED << appUrl, launchTimers >>
  /\ UNCHANGED << callVars, appResumeTimer, browserCalls, deviceTokenStore, webViewUrl, showWebView, deviceToken,
                  pushTokens, tokenCalls, reminders, outbox, msgCount, lastEnvelope,
                  lastOutcome >>

\* The 100 ms timer of a launch handler fires.
LaunchTimer ==
  /\ launchTimers # << >>
  /\ webViewUrl' = Head(launchTimers)
  /\ showWebView' = TRUE
  /\ launchTimers' = Tail(launchTimers)
  /\ UNCHANGED << callVars, appResumeTimer, browserCalls, appUrl, deviceTokenStore, deviceToken, pushTokens, tokenCalls,
                  launchWrites, reminders, outbox, msgCount, lastEnvelope, lastOutcome >>

\* The App component mounts and its initialisation effect calls
\* getOrCreateDeviceToken.
AppMount(k) ==
  /\ tokenCalls[k].pc = "idle"
  /\ \A j \in Mounts : j < k => tokenCalls[j].pc # "idle"
  /\ tokenCalls' = [tokenCalls EXCEPT ![k].pc = "getItem"]
  /\ UNCHANGED << callVars, appResumeTimer, browserCalls, appUrl, deviceTokenStore, webViewUrl, showWebView, deviceToken,
                  pushTokens, launchWrites, launchTimers, reminders, outbox, msgCount,
                  lastEnvelope, lastOutcome >>

\* getOrCreateDeviceToken once getItem has resolved: the stored token is
\* returned (and the effect calls setDeviceToken), or a new one is generated.
getOrCreateDeviceTokenRead(k) ==
  /\ tokenCalls[k].pc = "getItem"
  /\ IF deviceTokenStore # Null
       THEN /\ tokenCalls' = [tokenCalls EXCEPT ![k].pc = "done",
                                                ![k].result = deviceTokenStore]
            /\ deviceToken' = deviceTokenStore
       ELSE /\ tokenCalls' = [tokenCalls EXCEPT ![k].pc = "setItem",
                                                ![k].uuid = RandomToken(k)]
            /\ UNCHANGED deviceToken
  /\ UNCHANGED << callVars, appResumeTimer, browserCalls, appUrl, deviceTokenStore, webViewUrl, showWebView, pushTokens,
                  launchWrites, launchTimers, reminders, outbox, msgCount,
                  lastEnvelope, lastOutcome >>

\* getOrCreateDeviceToken once setItem has settled: the new token is returned,
\* or the rejection leaves the effect.
getOrCreateDeviceTokenWrite(k, ok) ==
  /\ tokenCalls[k].pc = "setItem"
  /\ IF ok
       THEN /\ deviceTokenStore' = tokenCalls[k].uuid
            /\ tokenCalls' = [tokenCalls EXCEPT ![k].pc = "done",
                                                ![k].result = tokenCalls[k].uuid]
            /\ deviceToken' = tokenCalls[k].uuid
       ELSE /\ tokenCalls' = [tokenCalls EXCEPT ![k].pc = "threw"]
            /\ UNCHANGED << deviceTokenStore, deviceToken >>
  /\ UNCHANGED << callVars, appResumeTimer, browserCalls, appUrl, webViewUrl, showWebView, pushTokens, launchWrites,
                  launchTimers, reminders, outbox, msgCount, lastEnvelope, lastOutcome >>

\* A push registration delivers its token: setExpoPushToken, setVoipToken or
\* setFcmToken.
SetPushToken(kind) ==
  /\ pushTokens[kind] = Null
  /\ pushTokens' = [pushTokens EXCEPT ![kind] = kind \o "-token"]
  /\ UNCHANGED << callVars, appResumeTimer, browserCalls, appUrl, deviceTokenStore, webViewUrl, showWebView, deviceToken,
                  tokenCalls, launchWrites, launchTimers, reminders, outbox, msgCount,
                  lastEnvelope, lastOutcome >>

\* The process is killed and relaunched: the bundle is loaded again and every
\* JavaScript value is lost; the AsyncStorage item is all that remains.
Relaunch ==
  /\ \E r \in Runs : pc[r] # "idle"
  /\ admittedBefore' =
       admittedBefore \cup
         { sig[r].messageId : r \in {x \in Runs : dedup[x].read = "ok" /\ dedup[x].wrote} }
  /\ pc' = [r \in Runs |-> "idle"]
  /\ sig' = [r \in Runs |-> NoData]
  /\ entry' = [r \in Runs |-> "none"]
  /\ receivedAt' = [r \in Runs |-> 0]
  /\ dedup' = [r \in Runs |-> NoDedup]
  /\ outcome' = [r \in Runs |-> "none"]
  /\ overlapped' = {}
  /\ Commit([cur |-> Null, setup |-> FALSE, svcL |-> 0, bgL |-> {},
             aT |-> [u \in UUIDs |-> 0], bgT |-> {}, live |-> {}, ans |-> {},
             ev |-> << >>, dlog |-> {}, endReqs |-> [u \in UUIDs |-> 0],
             endAll |-> 0, endF |-> 0, fg |-> 0, ansH |-> {}])
  /\ UNCHANGED << bridgeVars, envVars, completions, storedIds, admissions, handled, appInit, unhandled >>

DisplayFaults == SUBSET {"display"}
EndFaults == SUBSET {"end", "endAll"}
EventFaults == SUBSET {"foreground", "end", "endAll"}

\* The signals of the call-lifecycle specification: one message id, fresh or
\* stale, for either call.
CoreSignals ==
  { s \in Signals :
      s.type = "incoming_call" =>
        /\ s.messageId = "m1"
        /\ s.sentAt \in { SentAtTime(StartTime),
                          SentAtTime(StartTime - BACKGROUND_CALL_EXPIRY_THRESHOLD_MS - 1) } }

\* The signals of the background specification: either message id or none,
\* fresh or stale; a message id stands for one call, so redelivered messages
\* carry the same callId.
BackgroundSignals ==
  { s \in Signals :
      s.type = "incoming_call" =>
        /\ s.sentAt \in { SentAtTime(StartTime),
                          SentAtTime(StartTime - BACKGROUND_CALL_EXPIRY_THRESHOLD_MS - 1) }
        /\ (s.callId = "c2") = (s.messageId = "m2") }

\* The signals of the filter specification: every message id and every kind of
\* sentAt (the timestamps around the threshold), for one call.
FilterSignals ==
  { s \in Signals :
      /\ s.callId = "c1"
      /\ s.sentAt \notin {SentAtTime(StartTime), SentAtTime(StartTime + 1000)} }

\* Android, application in the background or killed: the background message
\* handler, its listeners and its timeout.
InitBackground == Launched({"android"}, {"background"}, InitialStores)

NextBackground ==
  \/ \E r \in Runs, s \in BackgroundSignals : BgReceive(r, s)
  \/ \E r \in Runs, ok \in BOOLEAN : handleMessageDeduplicationRead(r, ok)
  \/ \E r \in Runs, ok \in BOOLEAN : handleMessageDeduplicationWrite(r, ok)
  \/ \E r \in Runs, a \in BOOLEAN, f \in DisplayFaults : BgPresent(r, a, f)
  \/ \E r \in Runs, f \in EndFaults : BgTimeout(r, f)
  \/ \E f \in EventFaults : Dispatch(f)
  \/ \E u \in UUIDs : UserAnswer(u)
  \/ \E u \in UUIDs : UserEnd(u)

SpecBackground == InitBackground /\ [][NextBackground]_vars

\* Android, application in the foreground: the FCM listener and CallKeepService.
InitForeground == Launched({"android"}, {"active"}, {[has |-> FALSE, ids |-> << >>]})

NextForeground ==
  \/ \E r \in Runs, s \in CoreSignals, f \in DisplayFaults : FgOnMessage(r, s, f)
  \/ \E r \in Runs, ok \in BOOLEAN : SetupNative(r, ok)
  \/ \E r \in Runs, f \in DisplayFaults : SetupFinish(r, f)
  \/ AppInitSetup
  \/ \E ok \in BOOLEAN : AppInitNative(ok)
  \/ AppInitFinish
  \/ \E u \in UUIDs, f \in EndFaults : AnswerTimer(u, f)
  \/ \E f \in EventFaults : Dispatch(f)
  \/ \E u \in UUIDs : UserAnswer(u)
  \/ \E u \in UUIDs : UserEnd(u)

SpecForeground == InitForeground /\ [][NextForeground]_vars

\* The same, with the in-call controls of the native call UI.
InitInCall == Launched({"android"}, {"active"}, {[has |-> FALSE, ids |-> << >>]})

NextInCall ==
  \/ \E r \in Runs, s \in CoreSignals, f \in DisplayFaults : FgOnMessage(r, s, f)
  \/ \E r \in Runs, ok \in BOOLEAN : SetupNative(r, ok)
  \/ \E r \in Runs, f \in DisplayFaults : SetupFinish(r, f)
  \/ AppInitSetup
  \/ \E ok \in BOOLEAN : AppInitNative(ok)
  \/ AppInitFinish
  \/ \E u \in UUIDs, f \in EndFaults : AnswerTimer(u, f)
  \/ \E f \in EventFaults : Dispatch(f)
  \/ \E u \in UUIDs : UserAnswer(u)
  \/ \E u \in UUIDs : UserEnd(u)
  \/ \E u \in UUIDs, type \in InCallEventTypes : UserInCallAction(u, type)

SpecInCall == InitInCall /\ [][NextInCall]_vars

\* Every entry point on both platforms, with every kind of sentAt and a
\* running clock, up to the request to display the call.
InitFilter ==
  Launched({"android", "ios"}, {"active", "background"}, {[has |-> FALSE, ids |-> << >>]})

NextFilter ==
  \/ \E r \in Runs, s \in FilterSignals : BgReceive(r, s)
  \/ \E r \in Runs, s \in FilterSignals, f \in DisplayFaults : FgOnMessage(r, s, f)
  \/ \E r \in Runs, s \in FilterSignals \cap CallSignals, js \in BOOLEAN :
        PushRegistry(r, s, js)
  \/ \E r \in Runs, ok \in BOOLEAN : handleMessageDeduplicationRead(r, ok)
  \/ \E r \in Runs, ok \in BOOLEAN : handleMessageDeduplicationWrite(r, ok)
  \/ \E r \in Runs, a \in BOOLEAN, f \in DisplayFaults : BgPresent(r, a, f)
  \/ \E r \in Runs, ok \in BOOLEAN : SetupNative(r, ok)
  \/ \E r \in Runs, f \in DisplayFaults : SetupFinish(r, f)
  \/ \E r \in Runs, f \in DisplayFaults : VoipNotification(r, f)
  \/ \E next \in {"active", "background"} : AppStateChange(next)
  \/ runAppResume
  \/ Tick

SpecFilter == InitFilter /\ [][NextFilter]_vars

\* Android, application killed and relaunched between background deliveries,
\* AsyncStorage never failing: what the stored list of processed ids carries
\* from one process to the next.
InitRelaunch == Launched({"android"}, {"background"}, {[has |-> FALSE, ids |-> << >>]})

NextRelaunch ==
  \/ \E r \in Runs, s \in BackgroundSignals : BgReceive(r, s)
  \/ \E r \in Runs : handleMessageDeduplicationRead(r, TRUE)
  \/ \E r \in Runs : handleMessageDeduplicationWrite(r, TRUE)
  \/ \E r \in Runs, a \in BOOLEAN, f \in DisplayFaults : BgPresent(r, a, f)
  \/ Relaunch

SpecRelaunch == InitRelaunch /\ [][NextRelaunch]_vars

\* The web-view bridge: envelopes from the embedded content, the launch
\* handler's write and timer, the device token and the push tokens.
InitBridge == Launched({"android"}, {"active"}, {[has |-> FALSE, ids |-> << >>]})

NextBridge ==
  \/ openBrowser
  \/ \E env \in Envelopes, ok \in BOOLEAN : handleWebViewMessage(env, ok)
  \/ \E n \in 1..MaxMessages, u \in Urls, ok \in BOOLEAN :
        LaunchPersist([n |-> n, url |-> u], ok)
  \/ LaunchTimer
  \/ \E k \in Mounts : AppMount(k)
  \/ \E k \in Mounts : getOrCreateDeviceTokenRead(k)
  \/ \E k \in Mounts, ok \in BOOLEAN : getOrCreateDeviceTokenWrite(k, ok)
  \/ \E kind \in {"expo", "voip", "fcm"} : SetPushToken(kind)

SpecBridge == InitBridge /\ [][NextBridge]_vars

\* AppState.currentState and the nextAppState of a change event.
AppStates == {"active", "inactive", "background"}

\* The lifecycle messages of the AppState listener, with the web view shown by
\* openBrowser and hidden and shown again by launch messages.
InitLifecycle ==
  Launched({"android", "ios"}, {"active", "background"}, {[has |-> FALSE, ids |-> << >>]})

NextLifecycle ==
  \/ \E next \in AppStates : AppStateChange(next)
  \/ runAppResume
  \/ openBrowser
  \/ \E env \in {e \in Envelopes : e.type = "launch"} : handleWebViewMessage(env, TRUE)
  \/ \E n \in 1..MaxMessages, u \in Urls, ok \in BOOLEAN :
        LaunchPersist([n |-> n, url |-> u], ok)
  \/ LaunchTimer

SpecLifecycle == InitLifecycle /\ [][NextLifecycle]_vars

\* The payloads of the VoIP specification: with or without callId, fresh or
\* stale.
VoipSignals ==
  [ type : {"incoming_call"}, messageId : {NoMessageId}, callId : {"c1", NoCallId},
    sentAt : { SentAtTime(StartTime),
               SentAtTime(StartTime - BACKGROUND_CALL_EXPIRY_THRESHOLD_MS - 1) } ]

\* iOS: the push registry, the VoIP listeners of App and the completion
\* handler of each push.
InitVoip == Launched({"ios"}, {"active", "background"}, {[has |-> FALSE, ids |-> << >>]})

NextVoip ==
  \/ \E r \in Runs, s \in VoipSignals, js \in BOOLEAN : PushRegistry(r, s, js)
  \/ \E r \in Runs, f \in DisplayFaults : VoipNotification(r, f)
  \/ \E r \in Runs : didLoadWithEvents(r)
  \/ \E r \in Runs, ok \in BOOLEAN : SetupNative(r, ok)
  \/ \E r \in Runs, f \in DisplayFaults : SetupFinish(r, f)
  \/ \E next \in {"active", "background"} : AppStateChange(next)
  \/ runAppResume

\* The JavaScript event loop runs every listener whose event was emitted and
\* every continuation whose promise settled.
FairVoip ==
  \A r \in Runs :
    /\ WF_vars(\E f \in DisplayFaults : VoipNotification(r, f))
    /\ WF_vars(didLoadWithEvents(r))
    /\ WF_vars(\E ok \in BOOLEAN : SetupNative(r, ok))
    /\ WF_vars(\E f \in DisplayFaults : SetupFinish(r, f))

SpecVoip == InitVoip /\ [][NextVoip]_vars /\ FairVoip

\* The launch handler with the effects that call openBrowser, every pending
\* call, write and timer being run eventually.
InitLaunch == Launched({"android"}, {"active"}, {[has |-> FALSE, ids |-> << >>]})

NextLaunch ==
  \/ openBrowser
  \/ \E env \in Envelopes, ok \in BOOLEAN : handleWebViewMessage(env, ok)
  \/ \E n \in 1..MaxMessages, u \in Urls, ok \in BOOLEAN :
        LaunchPersist([n |-> n, url |-> u], ok)
  \/ LaunchTimer

\* React runs the effects, AsyncStorage settles every write and the timers
\* fire.
FairLaunch ==
  /\ WF_vars(openBrowser)
  /\ WF_vars(LaunchTimer)
  /\ \A n \in 1..MaxMessages, u \in Urls :
       WF_vars(\E ok \in BOOLEAN : LaunchPersist([n |-> n, url |-> u], ok))

SpecLaunch == InitLaunch /\ [][NextLaunch]_vars /\ FairLaunch

\* isStaleCallNotification by itself: every kind of sentAt at every reading of
\* the clock.
InitStale == Launched({"android"}, {"active"}, {[has |-> FALSE, ids |-> << >>]})

NextStale ==
  \/ \E r \in Runs, s \in CallSignals : StaleCheck(r, s)
  \/ Tick

SpecStale == InitStale /\ [][NextStale]_vars

(* ============================== claims ================================ *)
DisplayedBy(r) == {d \in displayLog : d.run = r}
JsDisplayedBy(r) == {d \in displayLog : d.run = r /\ d.path # "native"}
Delivered(r) == entry[r] # "none"
\* now - sentAt exceeded the threshold when the signal was delivered.
AgeExceeded(r) ==
  /\ sig[r].type = "incoming_call"
  /\ sig[r].sentAt.kind \in {"iso", "isoNoFraction"}
  /\ receivedAt[r] - sig[r].sentAt.ms > BACKGROUND_CALL_EXPIRY_THRESHOLD_MS
\* handleMessageDeduplication returned false for the run.
Admitted(r) ==
  \/ pc[r] = "bgPresent"
  \/ pc[r] = "done" /\ outcome[r] \in {"stale", "unavailable", "displayFailed", "presented"}

C2_AtMostOneAdmitted ==
  \A q, r \in Runs :
    ( /\ q # r /\ {q, r} \in overlapped
      /\ sig[q].messageId = sig[r].messageId
      /\ dedup[q].read = "ok" /\ dedup[r].read = "ok" )
      => ~(Admitted(q) /\ Admitted(r))

\* C3: at most one call is presented to the native call UI and not yet ended.
C3_AtMostOneLive == Cardinality(liveCalls) <= 1

\* C4: a signal older than the threshold at its delivery is rejected by every
\* JavaScript entry point: handleIncomingCall is not entered for it and no
\* JavaScript display request is issued for it.
C4_StaleNeverPresented ==
  \A r \in Runs :
    (Delivered(r) /\ AgeExceeded(r))
      => /\ JsDisplayedBy(r) = {}
         /\ pc[r] \notin {"setupNative", "setupPermissions"}
         /\ outcome[r] \notin {"presented", "displayFailed", "threw", "unavailable"}

\* A stale signal with an unseen id was rejected as stale by the background
\* handler and another by the foreground listener.
C4_Witness ==
  \E q, r \in Runs :
    /\ entry[q] = "background" /\ AgeExceeded(q) /\ outcome[q] = "stale"
    /\ dedup[q].read = "ok" /\ ~dedup[q].retained
    /\ entry[r] = "foreground" /\ AgeExceeded(r) /\ outcome[r] = "stale"

\* The signal was rejected as duplicate, as stale or for its timestamp.
RejectedSignal(r) ==
  /\ Delivered(r) /\ sig[r].type = "incoming_call"
  /\ \/ outcome[r] = "duplicate"
     \/ sig[r].sentAt.kind \in {"missing", "invalid"}
     \/ AgeExceeded(r)
\* The push registry's own filter rejects the signal.
RejectedNatively(r) ==
  \/ sig[r].sentAt.kind # "iso"
  \/ receivedAt[r] - sig[r].sentAt.ms > BACKGROUND_CALL_EXPIRY_THRESHOLD_MS

\* C5 as stated: for a rejected signal no display request is issued on any
\* path, the iOS push registry included.
C5_RejectedNeverDisplayed ==
  \A r \in Runs : RejectedSignal(r) => DisplayedBy(r) = {}

\* C5 amended: for a rejected signal no display request is issued by
\* JavaScript; the push registry reports the call of every push received while
\* the application is not active and ends the call at once when it is stale.
C5_RejectedSilentInJs ==
  /\ \A r \in Runs : RejectedSignal(r) => JsDisplayedBy(r) = {}
  /\ \A u \in UUIDs :
       Cardinality({r \in Runs :
                      /\ [run |-> r, uuid |-> u, path |-> "native"] \in displayLog
                      /\ RejectedNatively(r)}) <= endReqs[u]

\* A stale push reported and ended by the push registry, then dropped by the
\* JavaScript listener.
C5_Witness ==
  \E r \in Runs :
    /\ entry[r] = "voip" /\ AgeExceeded(r) /\ outcome[r] = "stale"
    /\ [run |-> r, uuid |-> sig[r].callId, path |-> "native"] \in displayLog
    /\ endReqs[sig[r].callId] >= 1
    /\ JsDisplayedBy(r) = {}

\* C6: a call whose answer was handled gets exactly one end request, neither
\* more while the answer is being processed nor fewer once it has been.
C6_ExactlyOneEnd ==
  \A u \in answerHandled :
    /\ endReqs[u] <= 1
    /\ (answerTimers[u] = 0 /\ events = << >>) => endReqs[u] = 1

\* C7: every call that is ringing has a timeout timer armed that ends it.
C7_TimeoutArmed ==
  \A u \in liveCalls \ answeredCalls : \E r \in bgTimer : sig[r].callId = u

\* C8: an end event handled by onEndCall, or endCall run by the answer timer,
\* for a call that has already ended issues no end or end-all request and ends
\* no other call.
C8_EndOfEndedIsNoOp ==
  [][ \A u \in UUIDs :
        ( /\ u \notin liveCalls
          /\ \/ answerTimers'[u] < answerTimers[u]
             \/ /\ handled' = handled + 1 /\ svcListeners > 0
                /\ events # << >> /\ Head(events) = EndEvent(u) )
        => (endReqs' = endReqs /\ endAllReqs' = endAllReqs /\ liveCalls' = liveCalls)
    ]_vars

\* C9: an answer event for a call that is not live (never presented, or already
\* ended) is a no-op: it sets no current call, requests no foreground
\* transition, schedules no end and issues none.
C9_LateAnswerIsNoOp ==
  [][ ( /\ handled' = handled + 1
        /\ events # << >> /\ Head(events).type = "answerCall"
        /\ Head(events).uuid \notin liveCalls )
      => ( /\ currentCallUUID' = currentCallUUID
           /\ fgReqs' = fgReqs
           /\ answerTimers' = answerTimers
           /\ endReqs' = endReqs )
    ]_vars

\* C10: no rejection of handleIncomingCall goes uncaught, and after a failed
\* setup or display the service holds no current call.
C10_NoEscape ==
  /\ unhandled = {}
  /\ \A r \in Runs :
       outcome[r] \in {"threw", "displayFailed"} => currentCallUUID # UuidV4(r)

\* C11: once endCall has run for an answered call that is the current call and
\* nothing is pending any more (no timer, no native event), the service holds
\* no current call, whether the native end requests succeeded or threw.
C11_NeverStuck ==
  \A u \in answerHandled :
    (answerTimers[u] = 0 /\ events = << >>) => currentCallUUID # u

\* C12: the persisted list of processed message ids never holds more than
\* MAX_STORED_MESSAGES entries and never holds a messageId twice.
C12_StoreBoundedNoRepeat ==
  /\ Len(StoredList) <= MAX_STORED_MESSAGES
  /\ \A i, j \in 1..Len(StoredList) : i # j => StoredList[i] # StoredList[j]

\* Two interleaved runs have written to a full list, evicting its oldest id.
C12_Witness ==
  /\ overlapped # {}
  /\ Len(StoredList) = MAX_STORED_MESSAGES
  /\ ~Includes(StoredList, "m1")
  /\ \E r \in Runs : pc[r] = "done" /\ dedup[r].read = "ok"
                     /\ StoredList[1] = sig[r].messageId

\* C13: a messageId that was admitted and stored before the process was killed
\* and relaunched (and that capacity has not evicted: fewer than
\* MAX_STORED_MESSAGES ids exist) is rejected as a duplicate by every later run
\* whose read of the stored list succeeds.
C13_AdmittedStaysRejected ==
  \A r \in Runs :
    ( /\ entry[r] = "background" /\ dedup[r].read = "ok"
      /\ sig[r].messageId \in admittedBefore
      /\ Cardinality(MessageIds) < MAX_STORED_MESSAGES )
      => outcome[r] = "duplicate"

\* The envelope is not valid JSON, carries no object, or carries a type that
\* handleWebViewMessage does not know.
Unrecognized(env) ==
  \/ env.json \in {"invalid", "null"}
  \/ /\ env.json = "object"
     /\ env.type \notin {"launch", "SCHEDULE_CALL", "CANCEL_SCHEDULE_CALL", "APP_PARAMS"}

\* C14: handling an envelope of unrecognized type or of invalid JSON ends in
\* the catch block or the final else branch, sends nothing to the web view and
\* changes neither the stored URL (nor any pending write or reload of it), nor
\* the reminders, nor the visibility of the web view.
C14_UnrecognizedIsDropped ==
  [][ (msgCount' = msgCount + 1 /\ Unrecognized(lastEnvelope'))
      => ( /\ lastOutcome' \in {"caught", "unexpected"}
           /\ outbox' = outbox
           /\ appUrl' = appUrl /\ launchWrites' = launchWrites
           /\ launchTimers' = launchTimers /\ webViewUrl' = webViewUrl
           /\ reminders' = reminders
           /\ showWebView' = showWebView )
    ]_vars

\* An envelope of unknown type was dropped while a URL was stored and a
\* reminder was scheduled.
C14_Witness ==
  /\ lastEnvelope.json = "object" /\ lastEnvelope.type = "Launch"
  /\ lastOutcome = "unexpected"
  /\ appUrl # Null /\ reminders # {} /\ showWebView

\* call-<username>-<timestamp>, as the claim writes it.
ReminderId(env) == "call-" \o env.username \o "-" \o ToString(env.timestamp)

\* C15: a SCHEDULE_CALL that the scheduler accepts adds exactly the reminder
\* call-<username>-<timestamp>, and a CANCEL_SCHEDULE_CALL that the scheduler
\* accepts removes exactly that reminder: afterwards none is left under the
\* identifier, cancelling an absent reminder changes nothing, and reminders
\* with other identifiers are untouched.
C15_CancelByIdentifier ==
  [][ (msgCount' = msgCount + 1)
      => /\ (lastEnvelope'.type = "SCHEDULE_CALL" /\ lastOutcome' = "scheduled")
              => reminders' = reminders \cup {ReminderId(lastEnvelope')}
         /\ (lastEnvelope'.type = "CANCEL_SCHEDULE_CALL" /\ lastOutcome' = "cancelled")
              => /\ reminders' = reminders \ {ReminderId(lastEnvelope')}
                 /\ ReminderId(lastEnvelope') \notin reminders'
                 /\ (ReminderId(lastEnvelope') \notin reminders => reminders' = reminders)
    ]_vars

\* Two reminders were scheduled and one of them was cancelled: the other one
\* is still there.
C15_Witness ==
  /\ lastEnvelope.type = "CANCEL_SCHEDULE_CALL" /\ lastOutcome = "cancelled"
  /\ msgCount = 3
  /\ ReminderId(lastEnvelope) \notin reminders
  /\ Cardinality(reminders) = 1

\* C16: once a device token is stored, storage is never overwritten with a
\* different one, and every call of getOrCreateDeviceToken that has returned
\* returned the stored token.
C16_TokenStable ==
  /\ \A k \in Mounts :
       tokenCalls[k].result # Null => tokenCalls[k].result = deviceTokenStore
  /\ \A j, k \in Mounts :
       (tokenCalls[j].result # Null /\ tokenCalls[k].result # Null)
         => tokenCalls[j].result = tokenCalls[k].result

AppParamsReplies(box) == {i \in 1..Len(box) : box[i].type = "APP_PARAMS"}

\* C17: handling an APP_PARAMS request appends exactly one APP_PARAMS reply
\* and no other step appends one; the reply carries appVersion, and carries
\* deviceToken with every known push token exactly when deviceToken and at
\* least one push token are known, otherwise none of them.
C17_OneReplyPerRequest ==
  [][ IF msgCount' = msgCount + 1 /\ lastEnvelope'.json = "object"
         /\ lastEnvelope'.type = "APP_PARAMS"
      THEN /\ Len(outbox') = Len(outbox) + 1
           /\ SubSeq(outbox', 1, Len(outbox)) = outbox
           /\ LET m == outbox'[Len(outbox')]
                  known == /\ deviceToken # Null
                           /\ \E kind \in {"expo", "voip", "fcm"} : pushTokens[kind] # Null
              IN /\ m.type = "APP_PARAMS"
                 /\ m.appVersion # Null
                 /\ m.deviceToken = (IF known THEN deviceToken ELSE Null)
                 /\ m.expoPushToken = (IF known THEN pushTokens.expo ELSE Null)
                 /\ m.voipToken = (IF known THEN pushTokens.voip ELSE Null)
                 /\ m.fcmToken = (IF known THEN pushTokens.fcm ELSE Null)
                 /\ (m.deviceToken = Null =>
                       m.expoPushToken = Null /\ m.voipToken = Null /\ m.fcmToken = Null)
      ELSE Cardinality(AppParamsReplies(outbox')) = Cardinality(AppParamsReplies(outbox))
    ]_vars

\* A reply without tokens was followed by one with the device token and the
\* one push token known by then.
C17_Witness ==
  \E i, j \in AppParamsReplies(outbox) :
    /\ i < j
    /\ outbox[i].deviceToken = Null
    /\ outbox[j].deviceToken # Null /\ outbox[j].fcmToken # Null
    /\ outbox[j].voipToken = Null /\ outbox[j].expoPushToken = Null

\* The URL openBrowser would load: the item stored under app_url, or APP_URL.
PersistedUrl == IF appUrl = Null THEN APP_URL ELSE appUrl

\* C18: a launch handler sets its timer only for the URL it has just stored
\* under app_url; when the timer fires the web view is shown with exactly
\* that URL; and once no launch write and no launch timer is outstanding,
\* the URL of the web view is the stored one.
C18_PersistThenReload ==
  [][ /\ Len(launchTimers') > Len(launchTimers) =>
           /\ launchTimers' = Append(launchTimers, appUrl')
           /\ appUrl' \in {w.url : w \in launchWrites \ launchWrites'}
      /\ (launchTimers # << >> /\ launchTimers' = Tail(launchTimers)) =>
           /\ showWebView'
           /\ webViewUrl' = Head(launchTimers)
      /\ (msgCount' > 0 /\ launchWrites' = {} /\ launchTimers' = << >>) =>
           webViewUrl' = PersistedUrl'
    ]_vars

\* Two launches have been processed to the end, the second one replacing the
\* URL of the first.
C18_Witness ==
  /\ msgCount >= 2 /\ lastOutcome = "launch"
  /\ launchWrites = {} /\ launchTimers = << >>
  /\ showWebView
  /\ appUrl = "https://b.example/" /\ webViewUrl = appUrl
  /\ lastEnvelope.url = appUrl

\* handleIncomingCall was entered for the run.
Entered(r) ==
  \/ pc[r] \in {"setupNative", "setupPermissions"}
  \/ pc[r] = "done" /\ outcome[r] \in {"presented", "displayFailed", "threw"}

\* C19: a call signal that reaches the foreground FCM listener or the VoIP
\* listener while its messageId is in the stored list does not enter
\* handleIncomingCall in that step, and no display request is issued for it.
C19_RecordedIdRejectedEverywhere ==
  [][ \A r \in Runs :
        ( /\ \/ entry[r] = "none" /\ entry'[r] = "foreground"
             \/ pc[r] = "voipNotification" /\ pc'[r] # "voipNotification"
          /\ sig'[r].type = "incoming_call"
          /\ Includes(StoredList, sig'[r].messageId) )
          => ( ~Entered(r)' /\ JsDisplayedBy(r)' = {} )
    ]_vars

\* The age of the signal of a run when isStaleCallNotification read the clock.
AgeMs(r) == receivedAt[r] - sig[r].sentAt.ms

\* C20: isStaleCallNotification returns true exactly when sentAt is missing,
\* cannot be parsed to a finite timestamp, or is more than 300000 ms old; a
\* signal aged exactly 300000 ms and one sent in the future are accepted.
C20_StaleExactly ==
  \A r \in Runs :
    entry[r] = "check" =>
      /\ (outcome[r] = "stale") <=>
           \/ sig[r].sentAt.kind = "missing"
           \/ sig[r].sentAt.kind = "invalid"
           \/ sig[r].sentAt.kind \in {"iso", "isoNoFraction"} /\ AgeMs(r) > 300000
      /\ outcome[r] \in {"stale", "fresh"}
      /\ (sig[r].sentAt.kind = "iso" /\ AgeMs(r) = 300000) => outcome[r] = "fresh"
      /\ (sig[r].sentAt.kind = "iso" /\ AgeMs(r) < 0) => outcome[r] = "fresh"

\* A signal aged exactly 300000 ms was accepted, and so was one sent in the
\* future.
C20_Witness ==
  /\ \E r \in Runs : entry[r] = "check" /\ sig[r].sentAt.kind = "iso"
                     /\ AgeMs(r) = 300000 /\ outcome[r] = "fresh"
  /\ \E r \in Runs : entry[r] = "check" /\ sig[r].sentAt.kind = "iso"
                     /\ AgeMs(r) < 0 /\ outcome[r] = "fresh"

\* The timestamp of the signal of a run makes isStaleCallNotification reject it.
TimestampRejected(r) ==
  \/ sig[r].sentAt.kind \in {"missing", "invalid"}
  \/ AgeExceeded(r)

\* C21: the step in which handleMessageDeduplication, having read the stored
\* list, writes for a signal that the background handler goes on to reject
\* for its timestamp leaves the stored list of message ids as it was.
C21_RejectedLeavesStore ==
  [][ \A r \in Runs :
        ( /\ entry[r] = "background"
          /\ pc[r] = "dedupWrite" /\ pc'[r] # "dedupWrite"
          /\ dedup[r].read = "ok"
          /\ TimestampRejected(r) )
          => storedIds' = storedIds
    ]_vars

\* C22: a fresh call signal without a messageId that the background handler
\* has finished with went on to the presentation of the call: it was not
\* dropped for the missing messageId.
C22_NoMessageIdProceeds ==
  \A r \in Runs :
    ( /\ entry[r] = "background" /\ pc[r] = "done"
      /\ sig[r].type = "incoming_call" /\ sig[r].messageId = NoMessageId
      /\ ~TimestampRejected(r) )
      => outcome[r] \in {"presented", "displayFailed", "unavailable"}

\* C23: the step that handles an answer event requests the foreground and
\* issues neither an end-call nor an end-all request; those are left to a
\* timer that fires later.
C23_ForegroundThenDelayedEnd ==
  [][ ( /\ handled' = handled + 1
        /\ events # << >> /\ Head(events).type = "answerCall"
        /\ (svcListeners > 0 \/ bgListeners # {}) )
      => ( /\ fgReqs' > fgReqs
           /\ endReqs' = endReqs
           /\ endAllReqs' = endAllReqs )
    ]_vars

\* The step emits the oldest pending native event to the listeners.
EventHandled == handled' = handled + 1 /\ events # << >>

\* C24: for the sessions presented by the background handler, a step in which
\* the answer or end handler of a session runs leaves no timeout armed for
\* it; a timeout is armed only by the step that presents its session, so it
\* cannot fire afterwards; the step in which a timeout fires leaves no
\* listener for a pending answer; and an event emitted to no listener issues
\* no request and changes no timer.
C24_TerminalCancelsTimeout ==
  [][ /\ \A r \in Runs : (EventHandled /\ r \in bgListeners) => r \notin bgTimer'
      /\ \A r \in Runs : (r \in bgTimer' \ bgTimer) => pc[r] = "bgPresent"
      /\ \A r \in Runs :
           (r \in bgTimer /\ r \notin bgTimer' /\ handled' = handled)
             => (bgListeners' = {} /\ endReqs'[sig[r].callId] = endReqs[sig[r].callId] + 1)
      /\ (EventHandled /\ bgListeners = {} /\ svcListeners = 0)
           => /\ endReqs' = endReqs /\ endAllReqs' = endAllReqs /\ fgReqs' = fgReqs
              /\ bgTimer' = bgTimer /\ liveCalls' = liveCalls
    ]_vars

\* The timeout of a presented session fired while the answer was pending, and
\* the answer event was then emitted to no listener.
C24_Witness ==
  \E r \in Runs :
    /\ outcome[r] = "presented" /\ r \notin bgTimer
    /\ bgListeners = {} /\ handled >= 1
    /\ sig[r].callId \notin answerHandled
    /\ endReqs[sig[r].callId] = 1 /\ fgReqs = 0
    /\ events = << EndEvent(sig[r].callId) >>

\* C25: in the step in which the application becomes active, every call that
\* is ringing or answered gets an end request (for itself, or for all calls)
\* and the service holds no current call afterwards.
C25_ActiveEndsLiveCalls ==
  [][ (appState # "active" /\ appState' = "active" /\ liveCalls # {})
      => /\ \A u \in liveCalls :
              endReqs'[u] > endReqs[u] \/ endAllReqs' > endAllReqs
         /\ currentCallUUID' = Null
    ]_vars

\* C26: handleIncomingCall is never waiting for setup on behalf of a signal
\* for which no display request has been issued yet: setup follows a first,
\* direct attempt.
C26_DirectAttemptBeforeSetup ==
  \A r \in Runs :
    pc[r] \in {"setupNative", "setupPermissions"} => DisplayedBy(r) # {}

\* The background answer handlers run by the step that did not attempt the
\* specific end.
AnswerHandlersWithoutEnd ==
  IF EventHandled /\ Head(events).type = "answerCall"
    THEN Cardinality(bgListeners)
           - (endReqs'[Head(events).uuid] - endReqs[Head(events).uuid])
    ELSE 0

BackgroundTerminal(r) ==
  /\ entry[r] = "background" /\ pc[r] = "done"
  /\ \/ outcome[r] = "displayFailed"
     \/ outcome[r] = "presented" /\ sig[r].callId \notin liveCalls /\ events = << >>

\* C28: for a background session that has ended no timeout is armed and its
\* answerCall/endCall listeners are no longer registered.
C28_TerminalReleasesResources ==
  \A r \in Runs :
    BackgroundTerminal(r) => (r \notin bgTimer /\ r \notin bgListeners)

RECURSIVE RecentFrom(_, _, _)
\* The first n distinct ids of a log written newest first.
RecentFrom(log, acc, n) ==
  IF log = << >> \/ Len(acc) = n THEN acc
  ELSE IF Includes(acc, Head(log)) THEN RecentFrom(Tail(log), acc, n)
  ELSE RecentFrom(Tail(log), Append(acc, Head(log)), n)
Recent(log) == RecentFrom(log, << >>, 5)

\* No two runs of handleMessageDeduplication have interleaved.
OneAtATime == overlapped = {}
\* No read of the stored list has failed and no write of it.
StorageSound ==
  \A r \in Runs :
    /\ dedup[r].read # "failed"
    /\ (pc[r] \in {"bgPresent", "done"} /\ dedup[r].read = "ok" /\ outcome[r] # "duplicate")
         => dedup[r].wrote

\* The stored list is the five most recently admitted distinct ids, newest
\* first, and the run that has just read it is rejected as a duplicate
\* exactly when its id is among them.
RecentWindowKept ==
  /\ StoredList' = Recent(admissions')
  /\ \A r \in Runs :
       (pc[r] = "dedupRead" /\ pc'[r] # "dedupRead")
         => ((outcome'[r] = "duplicate") <=> Includes(Recent(admissions), sig[r].messageId))

C30_SetupAtMostOnce == svcListeners <= 1

\* C31: the step that emits a DTMF, mute or hold event to the listeners
\* leaves currentCallUUID and isSetup unchanged and issues no foreground,
\* end-call, end-all or display request; no timer is set and no call ends.
C31_InCallEventsAreInert ==
  [][ (EventHandled /\ Head(events).type \in InCallEventTypes)
      => ( /\ currentCallUUID' = currentCallUUID
           /\ isSetup' = isSetup
           /\ fgReqs' = fgReqs
           /\ endReqs' = endReqs /\ endAllReqs' = endAllReqs
           /\ displayLog' = displayLog
           /\ answerTimers' = answerTimers
           /\ liveCalls' = liveCalls /\ svcListeners' = svcListeners )
    ]_vars

\* The only signal delivered was presented by the service after setup and its
\* call answered; two events have been emitted to the service's listeners, of
\* which at most one was the answer, and the call is still the current one.
C31_Witness ==
  /\ pc[1] = "done" /\ outcome[1] = "presented" /\ pc[2] = "idle"
  /\ isSetup /\ svcListeners = 1
  /\ UuidV4(1) \in answeredCalls /\ currentCallUUID = UuidV4(1)
  /\ handled = 2 /\ events = << >>
  /\ fgReqs = 1 /\ endReqs[UuidV4(1)] = 0 /\ endAllReqs = 0

\* C32: for each delivered signal at most one request to present a call is
\* issued, the push registry and the JavaScript listeners taken together.
C32_AtMostOnePresentation ==
  \A r \in Runs : Cardinality(DisplayedBy(r)) <= 1

\* C33: every call is presented to the native call UI under the callId its
\* signal carries, on every path.
C33_PresentedUnderCallId ==
  \A d \in displayLog : d.uuid = sig[d.run].callId

\* C34: the step in which the read of the stored ids fails treats the signal
\* as not a duplicate and goes on to the write; the step in which the write
\* settles admits the signal whether or not it failed; and a signal whose
\* read or write failed is never dropped as a duplicate nor ends in an
\* exception: when its timestamp is fresh it goes on to the presentation.
C34_DedupFailsOpen ==
  [][ \A r \in Runs :
        /\ (pc[r] = "dedupRead" /\ pc'[r] # "dedupRead" /\ dedup'[r].read = "failed")
             => pc'[r] = "dedupWrite"
        /\ (pc[r] = "dedupWrite" /\ pc'[r] # "dedupWrite")
             => (pc'[r] = "bgPresent" /\ admissions' = << sig[r].messageId >> \o admissions)
        /\ ( /\ entry'[r] = "background" /\ pc'[r] = "done"
             /\ \/ dedup'[r].read = "failed"
                \/ dedup'[r].read = "ok" /\ ~dedup'[r].retained /\ ~dedup'[r].wrote )
             => /\ outcome'[r] \notin {"duplicate", "threw"}
                /\ ~TimestampRejected(r)'
                     => outcome'[r] \in {"presented", "displayFailed", "unavailable"}
    ]_vars

\* One fresh signal was presented after its read of the stored ids had failed
\* (the list held its id) and another after its write had failed.
C34_Witness ==
  \E q, r \in Runs :
    /\ dedup[q].read = "failed" /\ dedup[q].retained /\ outcome[q] = "presented"
    /\ dedup[r].read = "ok" /\ ~dedup[r].wrote /\ outcome[r] = "presented"

\* The step handles an answer or end event of the call of run q, or is the
\* timeout of run q firing.
StepOfSession(q) ==
  \/ EventHandled /\ Head(events).uuid = sig[q].callId
  \/ handled' = handled /\ q \in bgTimer /\ q \notin bgTimer'

\* C35: while the call presented by one background run is ringing with its
\* timeout armed and its listeners registered, an answer, an end event or the
\* timeout of another run's call leaves that timeout armed and those
\* listeners registered.
C35_OverlappingCallsIndependent ==
  [][ \A q, r \in Runs :
        ( /\ q # r
          /\ outcome[q] = "presented" /\ outcome[r] = "presented"
          /\ entry[q] = "background" /\ entry[r] = "background"
          /\ sig[q].callId # sig[r].callId
          /\ sig[r].callId \in liveCalls \ answeredCalls
          /\ r \in bgTimer /\ r \in bgListeners
          /\ StepOfSession(q) )
          => (r \in bgTimer' /\ r \in bgListeners')
    ]_vars

\* The positions of the background/foreground messages in the outbox.
LifecycleSent(box) == {i \in 1..Len(box) : box[i].type \in {"background", "foreground"}}
\* The background/foreground message delivered last.
LastLifecycle(box) ==
  box[CHOOSE i \in LifecycleSent(box) : \A j \in LifecycleSent(box) : j <= i].type

\* C36: a foreground message is delivered only in a step that leaves the
\* application active; when the application is not active no foreground
\* message is pending; and whenever none is pending, the background or
\* foreground message delivered last matches the state of the application.
C36_LifecycleTracksAppState ==
  [][ /\ ( /\ Len(outbox') > Len(outbox)
           /\ outbox'[Len(outbox')].type = "foreground" ) => appState' = "active"
      /\ appState' # "active" => ~appResumeTimer'
      /\ (~appResumeTimer' /\ LifecycleSent(outbox') # {})
           => (LastLifecycle(outbox') = "foreground") = (appState' = "active")
    ]_vars

\* C37: the completion handler of a VoIP push is never invoked twice, and for
\* every push received it is eventually invoked once.
C37_CompletionExactlyOnce ==
  /\ [](\A r \in Runs : completions[r].invoked <= 1)
  /\ \A r \in Runs : (entry[r] = "voip") ~> (completions[r].invoked = 1)

\* C38: whenever a launch message has been handled and the web view is
\* hidden, the web view is eventually shown again.
C38_LaunchShowsWebViewAgain ==
  (msgCount > 0 /\ lastOutcome = "launch" /\ ~showWebView) ~> showWebView

\* C39: the step in which the background handler receives a message with no
\* data, or of a type other than incoming_call, ends the handler and leaves
\* the stored message ids, the listeners, the timers, the calls presented and
\* every request to the native call UI as they were; and no later step
\* presents a call, registers a listener or arms a timeout for it.
C39_NonCallMessageIgnored ==
  [][ /\ \A r \in Runs :
        ( /\ entry[r] = "none" /\ entry'[r] = "background"
          /\ sig'[r].type # "incoming_call" )
        => ( /\ pc'[r] = "done" /\ outcome'[r] = "ignored"
             /\ storedIds' = storedIds /\ admissions' = admissions
             /\ bgListeners' = bgListeners /\ svcListeners' = svcListeners
             /\ bgTimer' = bgTimer /\ answerTimers' = answerTimers
             /\ displayLog' = displayLog /\ liveCalls' = liveCalls
             /\ endReqs' = endReqs /\ endAllReqs' = endAllReqs /\ fgReqs' = fgReqs
             /\ currentCallUUID' = currentCallUUID /\ events' = events )
      /\ \A r \in Runs :
           (entry'[r] = "background" /\ sig'[r].type # "incoming_call")
             => (DisplayedBy(r)' = {} /\ r \notin bgListeners' /\ r \notin bgTimer')
    ]_vars

\* A message without data was ignored while a call presented by an earlier
\* delivery was ringing, its id stored, its listeners and its timeout in place.
C39_Witness ==
  \E q, r \in Runs :
    /\ outcome[q] = "presented" /\ dedup[q].wrote
    /\ q \in bgListeners /\ q \in bgTimer /\ sig[q].callId \in liveCalls
    /\ entry[r] = "background" /\ sig[r].type = "nodata" /\ outcome[r] = "ignored"
    /\ DisplayedBy(r) = {}

====
